---- MODULE Spec2Model ----
(***************************************************************************)
(* Model of the process monitor in src/native/jni/zygisk/hide/monitor.cpp: *)
(* the monitor thread (proc_monitor and its three signal handlers), the    *)
(* inspector workers (do_check_fork / check_pid) and the part of the       *)
(* kernel they talk to (ptrace attachments, procfs reads, signals).        *)
(***************************************************************************)
EXTENDS Integers, FiniteSets, Sequences, TLC

\* is_zygote_done() on a build without __LP64__: zygote_map.size() >= 1.  The
\* system has that many zygotes, pids 1..ExpectedZygotes.
ExpectedZygotes == 1

\* Number of fork events the zygotes produce in one run.
MaxForks == 2

\* The iteration cap of the three polling loops (300000 in the source).
IterCap == 1

\* attaches has a bit for each pid of 1 .. PID_MAX (lines 31-38).
PID_MAX == 32768
InRange(pid) == pid \in 1 .. PID_MAX

ZPids == 1 .. ExpectedZygotes
CPids == (ExpectedZygotes + 1) .. (ExpectedZygotes + MaxForks)
Pids  == ZPids \cup CPids

\* Mount-namespace fingerprints: InitNs is the namespace of init, a process
\* that unshares gets the namespace numbered by its own pid.
InitNs == 0
NsIds  == {InitNs} \cup Pids
\* What struct stat st holds after stat("/proc/<pid>") at line 188: a procfs
\* directory, which is no namespace handle.
DirStat == ExpectedZygotes + MaxForks + 1
NoNs == DirStat + 1

\* Values a read of /proc/<pid>/cmdline can give.
PreInit  == "<pre-initialized>"
ZygoteCmds == {"zygote", "zygote32", "zygote64"}
UsapCmds == {"usap32", "usap64"}
Cmdlines == {"zygote64", "usap64", PreInit, "com.example.app"}
\* Values a read of /proc/<pid>/attr/current can give.
ZygoteCtx == "u:r:zygote:s0"
AppZygoteCtx == "u:r:app_zygote:s0"
Contexts == {ZygoteCtx, AppZygoteCtx, "u:r:untrusted_app:s0"}
\* Owners of /proc/<pid>: root, or an application uid.
AppUid == 10050
Uids == {0, AppUid}

VARIABLES
    \* ---- kernel and environment
    proc,        \* pid -> "none" | "live" | "dead"
    ns,          \* pid -> the mount namespace the process is in
    traced,      \* pids trace-attached to the monitor thread
    opts,        \* pid -> "none" | "fork" | "app": the PTRACE_O_ options set
    nforks,      \* fork events reported so far
    \* ---- monitor.cpp globals
    zygote_map,  \* pid -> fingerprint
    attaches,    \* the pids whose bit is set
    fork_pid,
    inotify_fd,
    timer,       \* ITIMER_REAL is armed with the 250 ms interval
    sigact,      \* disposition of SIGTERMTHRD, SIGIO, SIGALRM
    \* ---- monitor thread
    orig_blocked,\* orig_mask blocks the three signals
    pc,          \* position of proc_monitor
    ev,          \* what waitpid returned
    \* ---- inspector workers
    wk,          \* worker -> its locals
    \* ---- observation
    obs

vars == <<proc, ns, traced, opts, nforks, zygote_map, attaches, fork_pid,
          inotify_fd, timer, sigact, orig_blocked, pc, ev, wk, obs>>

kernel   == <<proc, ns, traced, opts, nforks>>
monitor  == <<zygote_map, attaches, fork_pid, inotify_fd, timer, sigact,
              orig_blocked, pc, ev>>

NoEvent == [pid |-> 0, kind |-> "none", msg |-> 0]
EmptyMap == [p \in {} |-> 0]

Workers == 1 .. MaxForks
\* Besides its locals a worker carries what it has done so far: n, the
\* back-off sleeps it made (counted up to one more than the cap), and target,
\* the answer is_hide_target gave it.
IdleWorker == [pc |-> "idle", pid |-> 0, i |-> 0, j |-> 0, uid |-> 0,
               context |-> "", cmdline |-> "", st |-> 0, rdfail |-> FALSE,
               n |-> 0, target |-> "unasked"]

\* What the run has shown so far (no program state):
\*   conts, hides, stops  per child: SIGCONTs and SIGSTOPs the inspector sent,
\*                        hide_daemon calls made for it
\*   tfail    pids on which a trace call of the latest monitor step failed
\*   wwrote   an inspector worker has written attaches or zygote_map
\*   hrun     positions of proc_monitor, between the return of a wait with an
\*            event and the end of the dispatch, at which a handler has run
\*   termed   term_thread has run
\*   left     term_thread ended with pids attached that it had not detached
\*   hshared  hide_daemon was called for a live child in the mount namespace
\*            of a live zygote
\*   hfailed  hide_daemon was called for a child after a read of its proc
\*            entries had failed
\*   capped   pids whose inspector hit the iteration cap of a polling loop
\*   oob      attaches was indexed with a pid outside 1 .. PID_MAX
\*   lastread per zygote: the fingerprint new_zygote last read with success
\*            (NoNs: none yet)
\*   reseen   new_zygote has met a pid that was in zygote_map: "refreshed" if
\*            it went no further than line 324, "reattached" if it ever
\*            reached the PTRACE_ATTACH of line 330 for such a pid
InitObs == [conts |-> [c \in CPids |-> 0],
            hides |-> [c \in CPids |-> 0],
            stops |-> [c \in CPids |-> 0],
            tfail |-> {},
            wwrote |-> FALSE,
            hrun |-> {},
            termed |-> FALSE,
            left |-> FALSE,
            hshared |-> FALSE,
            hfailed |-> FALSE,
            capped |-> {},
            oob |-> FALSE,
            lastread |-> [z \in ZPids |-> NoNs],
            reseen |-> "no"]

Init ==
    /\ proc = [p \in Pids |-> "none"]
    /\ ns = [p \in Pids |-> InitNs]
    /\ traced = {}
    /\ opts = [p \in Pids |-> "none"]
    /\ nforks = 0
    /\ zygote_map = EmptyMap
    /\ attaches = {}
    /\ fork_pid = 0
    /\ inotify_fd = -1
    /\ timer = FALSE
    /\ sigact = "orig"
    /\ orig_blocked \in BOOLEAN
    /\ pc = "start"
    /\ ev = NoEvent
    /\ wk = [w \in Workers |-> IdleWorker]
    /\ obs = InitObs

(***************************************************************************)
(* The environment: zygotes start, unshare their mount namespace, and any  *)
(* process can be killed.                                                  *)
(***************************************************************************)
ZygoteStart(z) ==
    /\ proc[z] = "none"
    /\ proc' = [proc EXCEPT ![z] = "live"]
    /\ UNCHANGED <<ns, traced, opts, nforks, monitor, wk, obs>>

Unshare(p) ==
    /\ proc[p] = "live"
    /\ ns[p] # p
    /\ ns' = [ns EXCEPT ![p] = p]
    /\ UNCHANGED <<proc, traced, opts, nforks, monitor, wk, obs>>

Die(p) ==
    /\ proc[p] = "live"
    /\ proc' = [proc EXCEPT ![p] = "dead"]
    /\ UNCHANGED <<ns, traced, opts, nforks, monitor, wk, obs>>

(***************************************************************************)
(* Discovery: check_zygote and new_zygote.                                 *)
(***************************************************************************)
is_zygote_done(m) == Cardinality(DOMAIN m) >= ExpectedZygotes

\* The positions of proc_monitor between the return of waitpid with an event
\* and the end of that event's dispatch, and those of them after the mask
\* restore at line 414.
InDispatch == {"got", "dispatch", "fork2"}
AfterRestore == {"dispatch", "fork2"}

\* crawl_procfs finds the live processes named zygote* whose parent is init.
Crawled == {z \in ZPids : proc[z] = "live"}

\* What happens to a crawled zygote while new_zygote works on it: nothing, or
\* it is killed before read_ns, between read_ns and PTRACE_ATTACH, or after
\* the attach (so that PTRACE_SETOPTIONS and PTRACE_CONT fail).
Fates == {"ok", "dies_before_read", "dies_before_attach", "dies_after_attach"}

read_ns_ok(z, fate) == fate[z] # "dies_before_read"

\* new_zygote reaches the insertion at line 328.
IsNewZygote(z, fate) == read_ns_ok(z, fate) /\ z \notin DOMAIN zygote_map

\* xptrace(PTRACE_ATTACH) succeeds on a live process that is not yet a tracee.
AttachOk(z, fate) ==
    /\ IsNewZygote(z, fate)
    /\ fate[z] \in {"ok", "dies_after_attach"}
    /\ z \notin traced

\* A new_zygote that stores with map::insert, which keeps an old entry.
insert_only(m, z, st) ==
    [p \in DOMAIN m \cup {z} |-> IF p \in DOMAIN m THEN m[p] ELSE st]

\* lines 320-328: the fingerprint is stored for a known and for a new pid.
new_zygote_map(m, z, st) ==
    [p \in DOMAIN m \cup {z} |-> IF p = z THEN st ELSE m[p]]

\* What the scan under way adds to obs.reseen.
Reseen(was, fate) ==
    LET known == {z \in Crawled : read_ns_ok(z, fate) /\ z \in DOMAIN zygote_map}
    IN  IF was = "reattached" \/ \E z \in known : IsNewZygote(z, fate)
        THEN "reattached"
        ELSE IF known # {} THEN "refreshed" ELSE was

RECURSIVE CrawlMap(_, _, _)
CrawlMap(m, todo, fate) ==
    IF todo = {} THEN m
    ELSE LET z == CHOOSE x \in todo : \A y \in todo : x <= y
             m1 == IF read_ns_ok(z, fate) THEN new_zygote_map(m, z, ns[z]) ELSE m
         IN CrawlMap(m1, todo \ {z}, fate)

\* lines 92-97: the periodic scan is stopped once enough zygotes are known.
check_zygote_timer(m, t) == IF is_zygote_done(m) THEN FALSE ELSE t

\* lines 81-91: new_zygote on every crawled zygote; at is the position of
\* proc_monitor a handler runs this at ({} when proc_monitor itself calls).
crawl_zygotes(at) ==
    \E fate \in [Crawled -> Fates] :
        /\ zygote_map' = CrawlMap(zygote_map, Crawled, fate)
        /\ traced' = traced \cup {z \in Crawled : AttachOk(z, fate)}
        /\ opts' = [p \in Pids |->
                       IF p \in Crawled /\ AttachOk(p, fate) /\ fate[p] = "ok"
                       THEN "fork" ELSE opts[p]]
        /\ proc' = [p \in Pids |->
                       IF p \in Crawled /\ fate[p] # "ok" THEN "dead" ELSE proc[p]]
        /\ obs' = [obs EXCEPT
                     !.tfail = {z \in Crawled :
                                  IsNewZygote(z, fate) /\
                                  (fate[z] # "ok" \/ z \in traced)},
                     !.hrun = @ \cup (at \cap InDispatch),
                     !.lastread = [z \in ZPids |->
                                     IF z \in Crawled /\ read_ns_ok(z, fate)
                                     THEN ns[z] ELSE @[z]],
                     !.reseen = Reseen(@, fate)]

check_zygote(at) ==
    /\ crawl_zygotes(at)
    /\ timer' = check_zygote_timer(zygote_map', timer)

(***************************************************************************)
(* proc_monitor up to its loop.                                            *)
(***************************************************************************)
\* lines 356-386: the handlers are installed, inotify is set up (or fails).
Setup(fd) ==
    /\ pc = "start"
    /\ sigact' = "handler"
    /\ inotify_fd' = fd
    /\ pc' = "scan"
    /\ UNCHANGED <<kernel, zygote_map, attaches, fork_pid, timer,
                   orig_blocked, ev, wk, obs>>

\* lines 389-395: the first scan; the timer is armed unless it found enough.
start_timer(m, t) == IF ~is_zygote_done(m) THEN TRUE ELSE t

StartScan ==
    /\ pc = "scan"
    /\ crawl_zygotes({})
    /\ timer' = start_timer(zygote_map', check_zygote_timer(zygote_map', timer))
    /\ pc' = "wait"
    /\ UNCHANGED <<ns, nforks, attaches, fork_pid, inotify_fd, sigact,
                   orig_blocked, ev, wk>>

(***************************************************************************)
(* The loop of proc_monitor, lines 397-468.                                *)
(***************************************************************************)
StopKinds == {"fork", "vfork", "exit", "other", "sigstop", "sig"}

\* The ptrace events a tracee with the given options can report.
CanReport(p, kind) ==
    CASE kind \in {"fork", "vfork"} -> opts[p] = "fork" /\ p \in ZPids
      [] kind = "exit"  -> opts[p] # "none"
      [] kind = "other" -> opts[p] = "app"
      [] OTHER -> TRUE

NextChild == ExpectedZygotes + nforks + 1

\* line 400: waitpid returns a tracee that has exited, which reaps it and ends
\* the attachment, or a tracee in a ptrace-stop.
WaitReturn(p) ==
    /\ pc = "wait"
    /\ p \in traced
    /\ IF proc[p] = "dead"
       THEN /\ traced' = traced \ {p}
            /\ opts' = [opts EXCEPT ![p] = "none"]
            /\ ev' = [pid |-> p, kind |-> "exited", msg |-> 0]
       ELSE /\ ev' = [pid |-> p, kind |-> "stopped", msg |-> 0]
            /\ UNCHANGED <<traced, opts>>
    /\ pc' = "got"
    /\ UNCHANGED <<proc, ns, nforks, zygote_map, attaches, fork_pid, inotify_fd,
                   timer, sigact, orig_blocked, wk, obs>>

\* lines 401-411: with no tracee waitpid fails with ECHILD and the loop sleeps.
WaitNoChild ==
    /\ pc = "wait"
    /\ traced = {}
    /\ pc' = "sleep"
    /\ UNCHANGED <<kernel, zygote_map, attaches, fork_pid, inotify_fd, timer,
                   sigact, orig_blocked, ev, wk, obs>>

\* line 414: pthread_sigmask(SIG_SETMASK, &orig_mask).
RestoreMask ==
    /\ pc = "got"
    /\ pc' = "dispatch"
    /\ UNCHANGED <<kernel, zygote_map, attaches, fork_pid, inotify_fd, timer,
                   sigact, orig_blocked, ev, wk, obs>>

\* The status waitpid returned for ev.pid decodes to a stop of some kind.
Stopped(p, kind) ==
    ev.pid = p /\ ev.kind = "stopped" /\ kind \in StopKinds /\ CanReport(p, kind)

\* PTRACE_DETACH, PTRACE_CONT and PTRACE_SETOPTIONS on a tracee work unless it
\* was killed since it stopped.
TraceOk(p) == p \in traced /\ proc[p] = "live"

\* A detach_pid that leaves the bit as it was.
detach_keeps_bit(a, p) == a

\* detach_pid, lines 176-180, called by the monitor thread.
detach_attaches(a, p) == a \ {p}
detach_traced(t, p, ok) == IF ok THEN t \ {p} ELSE t
detach_opts(o, p, ok) == IF ok THEN [o EXCEPT ![p] = "none"] ELSE o

\* A process reported in its exit stop is gone once the stop is over.
AfterStop(pr, p, kind) ==
    IF kind = "exit" THEN [pr EXCEPT ![p] = "dead"] ELSE pr

MonitorWrote == [obs EXCEPT !.tfail = {}]

\* lines 416-417: not a ptrace-stop, DETACH_AND_CONT.
DispatchExited ==
    /\ pc = "dispatch" /\ ev.kind = "exited"
    /\ attaches' = detach_attaches(attaches, ev.pid)
    /\ obs' = MonitorWrote
    /\ pc' = "wait" /\ ev' = NoEvent
    /\ UNCHANGED <<kernel, zygote_map, fork_pid, inotify_fd, timer,
                   sigact, orig_blocked, wk>>

\* lines 428-432: a registered zygote forked.  The kernel has made the child a
\* tracee with the options of its parent.
fork_attaches(a, msg) == a \ {msg}
fork_slot(msg) == msg

\* line 424: PTRACE_GETEVENTMSG gives the pid of the child; when it fails,
\* because the zygote was killed in its stop, msg is left uninitialized and
\* holds anything: here 0, the pid of a zygote, or a number above PID_MAX.
Garbage == {0, PID_MAX + 1} \cup ZPids
geteventmsg(p, child) == IF TraceOk(p) THEN {child} ELSE Garbage

DispatchFork(p, kind, maxf) ==
    /\ pc = "dispatch" /\ Stopped(p, kind) /\ kind \in {"fork", "vfork"}
    /\ nforks < maxf
    /\ p \in DOMAIN zygote_map
    /\ proc' = [proc EXCEPT ![NextChild] = "live"]
    /\ ns' = [ns EXCEPT ![NextChild] = ns[p]]
    /\ traced' = traced \cup {NextChild}
    /\ opts' = [opts EXCEPT ![NextChild] = opts[p]]
    /\ nforks' = nforks + 1
    /\ \E msg \in geteventmsg(p, NextChild) :
         ev' = [pid |-> p, kind |-> kind, msg |-> msg]
    /\ attaches' = fork_attaches(attaches, ev'.msg)
    /\ fork_pid' = fork_slot(ev'.msg)
    /\ obs' = [MonitorWrote EXCEPT !.oob = @ \/ ~InRange(ev'.msg)]
    /\ pc' = "fork2"
    /\ UNCHANGED <<zygote_map, inotify_fd, timer, sigact, orig_blocked, wk>>

\* lines 433-435 and 446: the child is detached (which fails if it has not
\* reached its first stop), the worker is started, the zygote resumed.
DispatchFork2(stopped) ==
    /\ pc = "fork2"
    /\ LET ok == stopped /\ TraceOk(ev.msg) IN
         /\ traced' = detach_traced(traced, ev.msg, ok)
         /\ opts' = detach_opts(opts, ev.msg, ok)
    /\ attaches' = detach_attaches(attaches, ev.msg)
    /\ wk' = [wk EXCEPT ![nforks] = [IdleWorker EXCEPT !.pc = "read"]]
    /\ proc' = AfterStop(proc, ev.pid, ev.kind)
    /\ obs' = [MonitorWrote EXCEPT
                 !.tfail = IF TraceOk(ev.pid) THEN {} ELSE {ev.pid}]
    /\ pc' = "wait" /\ ev' = NoEvent
    /\ UNCHANGED <<ns, nforks, zygote_map, fork_pid, inotify_fd, timer, sigact,
                   orig_blocked>>

\* lines 436-441: any other event of a registered zygote, its exit included.
erase(m, p) == [q \in DOMAIN m \ {p} |-> m[q]]

DispatchZygoteLost(p, kind) ==
    /\ pc = "dispatch" /\ Stopped(p, kind) /\ kind \in {"exit", "other"}
    /\ p \in DOMAIN zygote_map
    /\ zygote_map' = erase(zygote_map, p)
    /\ attaches' = detach_attaches(attaches, p)
    /\ traced' = detach_traced(traced, p, TraceOk(p))
    /\ opts' = detach_opts(opts, p, TraceOk(p))
    /\ proc' = AfterStop(proc, p, kind)
    /\ obs' = MonitorWrote
    /\ pc' = "wait" /\ ev' = NoEvent
    /\ UNCHANGED <<ns, nforks, fork_pid, inotify_fd, timer, sigact,
                   orig_blocked, wk>>

\* lines 443-445: an event of a pid that is not in zygote_map.
DispatchForeign(p, kind) ==
    /\ pc = "dispatch" /\ Stopped(p, kind)
    /\ kind \in {"fork", "vfork", "exit", "other"}
    /\ p \notin DOMAIN zygote_map
    /\ attaches' = detach_attaches(attaches, p)
    /\ traced' = detach_traced(traced, p, TraceOk(p))
    /\ opts' = detach_opts(opts, p, TraceOk(p))
    /\ proc' = AfterStop(proc, p, kind)
    /\ obs' = MonitorWrote
    /\ pc' = "wait" /\ ev' = NoEvent
    /\ UNCHANGED <<ns, nforks, zygote_map, fork_pid, inotify_fd, timer, sigact,
                   orig_blocked, wk>>

\* is_process, lines 296-313: the pid is a live thread-group leader.
is_process(p) == proc[p] = "live"

\* lines 448-452: the bit after the double check.
sigstop_bit(a, p) == p \in a \/ is_process(p)

\* lines 447-462: a SIGSTOP stop.
DispatchSigstop(p) ==
    /\ pc = "dispatch" /\ Stopped(p, "sigstop")
    /\ IF sigstop_bit(attaches, p)
       THEN /\ attaches' = attaches \cup {p}
            /\ opts' = IF TraceOk(p) THEN [opts EXCEPT ![p] = "app"] ELSE opts
            /\ obs' = [MonitorWrote EXCEPT
                         !.tfail = IF TraceOk(p) THEN {} ELSE {p}]
            /\ UNCHANGED traced
       ELSE /\ attaches' = detach_attaches(attaches, p)
            /\ traced' = detach_traced(traced, p, TraceOk(p))
            /\ opts' = detach_opts(opts, p, TraceOk(p))
            /\ obs' = MonitorWrote
    /\ proc' = AfterStop(proc, p, "sigstop")
    /\ pc' = "wait" /\ ev' = NoEvent
    /\ UNCHANGED <<ns, nforks, zygote_map, fork_pid, inotify_fd, timer,
                   sigact, orig_blocked, wk>>

\* lines 463-467: another signal is passed on with PTRACE_CONT.
DispatchSignal(p) ==
    /\ pc = "dispatch" /\ Stopped(p, "sig")
    /\ proc' = AfterStop(proc, p, "sig")
    /\ obs' = [obs EXCEPT !.tfail = IF TraceOk(p) THEN {} ELSE {p}]
    /\ pc' = "wait" /\ ev' = NoEvent
    /\ UNCHANGED <<ns, traced, opts, nforks, zygote_map, attaches, fork_pid,
                   inotify_fd, timer, sigact, orig_blocked, wk>>

(***************************************************************************)
(* The signal handlers.  Each runs with every signal blocked (sa_mask is   *)
(* full), on the monitor thread, where the signal is not blocked.          *)
(***************************************************************************)
\* A loop that leaves the three signals unblocked after line 414.
mask_never_blocks(at, orig) == FALSE

\* The three signals are unblocked from line 398 until line 414, and
\* otherwise blocked as orig_mask says.
mask_blocks(at, orig) == IF at \in {"wait", "got", "sleep"} THEN FALSE ELSE orig

Deliverable ==
    /\ sigact = "handler"
    /\ pc \notin {"start", "exited"}
    /\ ~mask_blocks(pc, orig_blocked)

\* A handler that returns lets an interrupted nanosleep return (line 411).
Resume == IF pc = "sleep" THEN "wait" ELSE pc

\* SIGALRM, line 383.
AlarmHandler ==
    /\ Deliverable /\ timer
    /\ check_zygote({pc})
    /\ pc' = Resume
    /\ UNCHANGED <<ns, nforks, attaches, fork_pid, inotify_fd, sigact,
                   orig_blocked, ev, wk>>

\* SIGIO, inotify_event, lines 132-148: nothing to read ...
InotifyIdle ==
    /\ Deliverable
    /\ obs' = [obs EXCEPT !.hrun = @ \cup ({pc} \cap InDispatch)]
    /\ pc' = Resume
    /\ UNCHANGED <<kernel, zygote_map, attaches, fork_pid, inotify_fd, timer,
                   sigact, orig_blocked, ev, wk>>

\* ... or an event is read (update_uid_map is external) and the zygotes are
\* scanned.
InotifyEvent ==
    /\ Deliverable /\ inotify_fd # -1
    /\ check_zygote({pc})
    /\ pc' = Resume
    /\ UNCHANGED <<ns, nforks, attaches, fork_pid, inotify_fd, sigact,
                   orig_blocked, ev, wk>>

\* A term_thread without line 153, and one without line 166.
term_thread_keeps_bits(a) == a
term_thread_returns(at) == at

\* SIGTERMTHRD, term_thread, lines 150-167.  pthread_exit ends the tracer, and
\* the kernel then releases its tracees; the handler itself detaches nothing.
term_thread_map(m) == EmptyMap
term_thread_attaches(a) == {}
term_thread_fd(fd) == -1
term_thread_sigact(d) == "dfl"
term_thread_exit(at) == "exited"

TermHandler ==
    /\ Deliverable
    /\ zygote_map' = term_thread_map(zygote_map)
    /\ attaches' = term_thread_attaches(attaches)
    /\ inotify_fd' = term_thread_fd(inotify_fd)
    /\ sigact' = term_thread_sigact(sigact)
    /\ pc' = term_thread_exit(pc)
    /\ ev' = NoEvent
    /\ traced' = IF pc' = "exited" THEN {} ELSE traced
    /\ opts' = IF pc' = "exited" THEN [p \in Pids |-> "none"] ELSE opts
    /\ obs' = [obs EXCEPT !.hrun = @ \cup ({pc} \cap InDispatch),
                          !.termed = TRUE,
                          !.left = (traced # {}),
                          !.tfail = {}]
    /\ UNCHANGED <<proc, ns, nforks, fork_pid, timer, orig_blocked, wk>>

(***************************************************************************)
(* The inspector worker: do_check_fork, lines 338-351.                     *)
(***************************************************************************)
\* line 339
WkRead(w) ==
    /\ wk[w].pc = "read"
    /\ wk' = [wk EXCEPT ![w].pid = fork_pid, ![w].pc = "clear"]
    /\ UNCHANGED <<kernel, monitor, obs>>

\* lines 340-342
WkClear(w) ==
    /\ wk[w].pc = "clear"
    /\ fork_pid' = 0
    /\ wk' = [wk EXCEPT ![w].pc = IF wk[w].pid = 0 THEN "done" ELSE "detach"]
    /\ UNCHANGED <<kernel, zygote_map, attaches, inotify_fd, timer, sigact,
                   orig_blocked, pc, ev, obs>>

\* line 343: detach_pid on the worker thread.  The bit is cleared; the
\* PTRACE_DETACH of a thread that is not the tracer fails.
WkDetach(w) ==
    /\ wk[w].pc = "detach"
    /\ attaches' = detach_attaches(attaches, wk[w].pid)
    /\ obs' = [obs EXCEPT !.wwrote = TRUE, !.oob = @ \/ ~InRange(wk[w].pid)]
    /\ wk' = [wk EXCEPT ![w].pc = "stat"]
    /\ UNCHANGED <<kernel, zygote_map, fork_pid, inotify_fd, timer, sigact,
                   orig_blocked, pc, ev>>

(***************************************************************************)
(* check_pid, lines 182-294, on the worker thread.  A read of a proc entry *)
(* of a dead child fails; what a live child shows is up to the child.      *)
(***************************************************************************)
Alive(w) == wk[w].pid \in Pids /\ proc[wk[w].pid] = "live"

\* check_pid returns true: the loop of do_check_fork ends, the worker is done.
Returned(w) == [IdleWorker EXCEPT !.pc = "done", !.pid = wk[w].pid]

WorkerLocal == <<kernel, monitor, obs>>

\* A loop counter that is never advanced.
incr_forgotten(k) == k

\* i++ of the three loops (lines 220, 245, 348), the test against the cap
\* (lines 221, 246, 347), and the usleep(10) that follows a poll.
incr(k) == k + 1
cap_hit(k) == k >= IterCap
slept(n) == IF n > IterCap THEN n ELSE n + 1

Capped(w) == [obs EXCEPT !.capped = @ \cup {wk[w].pid}]

\* lines 187-192
WkStat(w, uids) ==
    /\ wk[w].pc = "stat"
    /\ IF Alive(w)
       THEN \E u \in uids :
                wk' = [wk EXCEPT ![w].uid = u, ![w].st = DirStat, ![w].pc = "attr"]
       ELSE wk' = [wk EXCEPT ![w] = Returned(w)]
    /\ UNCHANGED WorkerLocal

\* lines 194-200
WkAttr(w, ctxs) ==
    /\ wk[w].pc = "attr"
    /\ IF Alive(w)
       THEN \E c \in ctxs :
                wk' = [wk EXCEPT ![w].context = c, ![w].pc = "cmdline"]
       ELSE wk' = [wk EXCEPT ![w] = Returned(w)]
    /\ UNCHANGED WorkerLocal

\* lines 211-216: where check_pid goes after the first read of cmdline.
after_cmdline(cmdline, context) ==
    IF cmdline \in ZygoteCmds /\ context # ZygoteCtx
    THEN IF context = AppZygoteCtx THEN "check_and_hide" ELSE "loop1"
    ELSE "check_and_hide"

\* lines 202-218; context is not read again
WkCmdline(w, cmds) ==
    /\ wk[w].pc = "cmdline"
    /\ IF Alive(w)
       THEN \E c \in cmds :
                wk' = [wk EXCEPT ![w].cmdline = c, ![w].context = "", ![w].j = 0,
                                 ![w].pc = after_cmdline(c, wk[w].context)]
       ELSE wk' = [wk EXCEPT ![w] = Returned(w)]
    /\ UNCHANGED WorkerLocal

\* lines 220-230: wait until pre-initialized
WkLoop1(w, cmds) ==
    /\ wk[w].pc = "loop1"
    /\ IF wk[w].cmdline = PreInit
       THEN wk' = [wk EXCEPT ![w].pc = "check_and_hide", ![w].j = 0]
       ELSE IF cap_hit(wk[w].j) \/ ~Alive(w)
       THEN wk' = [wk EXCEPT ![w] = Returned(w)]
       ELSE \E c \in cmds :
                wk' = [wk EXCEPT ![w].cmdline = c, ![w].j = incr(@),
                                 ![w].n = slept(@)]
    /\ obs' = IF wk[w].cmdline # PreInit /\ cap_hit(wk[w].j)
              THEN Capped(w) ELSE obs
    /\ UNCHANGED <<kernel, monitor>>

\* lines 236-241: check_pid returns false, or goes on to the second loop
WkCheckAndHide(w) ==
    /\ wk[w].pc = "check_and_hide"
    /\ IF wk[w].uid = 0 \/ wk[w].cmdline \in ZygoteCmds \cup UsapCmds
       THEN wk' = [wk EXCEPT ![w].pc = "retry", ![w].uid = 0, ![w].cmdline = "",
                             ![w].st = 0]
       ELSE wk' = [wk EXCEPT ![w].pc = "loop2", ![w].j = 0]
    /\ UNCHANGED WorkerLocal

\* lines 245-254: the app process is being initialized
WkLoop2(w, cmds) ==
    /\ wk[w].pc = "loop2"
    /\ IF wk[w].cmdline # PreInit
       THEN wk' = [wk EXCEPT ![w].pc = "reread", ![w].j = 0]
       ELSE IF cap_hit(wk[w].j)
       THEN wk' = [wk EXCEPT ![w].pc = "not_target", ![w].j = 0]
       ELSE IF ~Alive(w)
       THEN wk' = [wk EXCEPT ![w] = Returned(w)]
       ELSE \E c \in cmds :
                wk' = [wk EXCEPT ![w].cmdline = c, ![w].j = incr(@),
                                 ![w].n = slept(@)]
    /\ obs' = IF wk[w].cmdline = PreInit /\ cap_hit(wk[w].j)
              THEN Capped(w) ELSE obs
    /\ UNCHANGED <<kernel, monitor>>

\* A check_pid that consults is_hide_target without the kill of line 265.
ask_first == "target"

\* lines 264-267: what follows the last read of cmdline.
after_reread == "stop"

\* lines 257-262: read process name again to make sure
WkReread(w, cmds) ==
    /\ wk[w].pc = "reread"
    /\ IF Alive(w)
       THEN \E c \in cmds :
                wk' = [wk EXCEPT ![w].cmdline = c, ![w].pc = after_reread]
       ELSE wk' = [wk EXCEPT ![w] = Returned(w)]
    /\ UNCHANGED WorkerLocal

Bump(f, c) == IF c \in DOMAIN f THEN [f EXCEPT ![c] = @ + 1] ELSE f

\* line 265: kill(pid, SIGSTOP)
WkStop(w) ==
    /\ wk[w].pc = "stop"
    /\ obs' = [obs EXCEPT !.stops = Bump(@, wk[w].pid)]
    /\ wk' = [wk EXCEPT ![w].pc = "target"]
    /\ UNCHANGED <<kernel, monitor>>

\* lines 267-269: is_hide_target(uid, cmdline, 95) is external
WkTarget(w, answers) ==
    /\ wk[w].pc = "target"
    /\ \E t \in answers :
         wk' = [wk EXCEPT ![w].pc = IF t THEN "read_ns" ELSE "not_target",
                          ![w].target = IF t THEN "yes" ELSE "no"]
    /\ UNCHANGED WorkerLocal

\* line 272: read_ns(pid, &st), its result ignored; a failed stat leaves st
\* as line 188 filled it
read_ns_st(st, w) == IF Alive(w) THEN ns[wk[w].pid] ELSE st

WkReadNs(w) ==
    /\ wk[w].pc = "read_ns"
    /\ wk' = [wk EXCEPT ![w].st = read_ns_st(@, w), ![w].rdfail = ~Alive(w),
                         ![w].pc = "compare"]
    /\ UNCHANGED WorkerLocal

\* lines 273-280: the namespace is that of a zygote in zygote_map
ns_not_separated(m, st) == \E z \in DOMAIN m : m[z] = st

WkCompare(w) ==
    /\ wk[w].pc = "compare"
    /\ wk' = [wk EXCEPT ![w].pc = IF ns_not_separated(zygote_map, wk[w].st)
                                   THEN "not_target" ELSE "hide"]
    /\ UNCHANGED WorkerLocal

\* The child shares its mount namespace with a live zygote.
SharesNs(c) ==
    /\ c \in Pids /\ proc[c] = "live"
    /\ \E z \in ZPids : proc[z] = "live" /\ ns[z] = ns[c]

\* lines 285-288: hide_daemon(pid), and check_pid returns true
WkHide(w) ==
    /\ wk[w].pc = "hide"
    /\ obs' = [obs EXCEPT !.hides = Bump(@, wk[w].pid),
                          !.hshared = @ \/ SharesNs(wk[w].pid),
                          !.hfailed = @ \/ wk[w].rdfail]
    /\ wk' = [wk EXCEPT ![w] = Returned(w)]
    /\ UNCHANGED <<kernel, monitor>>

\* lines 290-293: kill(pid, SIGCONT), and check_pid returns true
WkNotTarget(w) ==
    /\ wk[w].pc = "not_target"
    /\ obs' = [obs EXCEPT !.conts = Bump(@, wk[w].pid)]
    /\ wk' = [wk EXCEPT ![w] = Returned(w)]
    /\ UNCHANGED <<kernel, monitor>>

\* lines 346-350: check_pid returned false
WkRetry(w) ==
    /\ wk[w].pc = "retry"
    /\ IF cap_hit(wk[w].i)
       THEN wk' = [wk EXCEPT ![w] = Returned(w)]
       ELSE wk' = [wk EXCEPT ![w].i = incr(@), ![w].n = slept(@),
                             ![w].pc = "stat"]
    /\ obs' = IF cap_hit(wk[w].i) THEN Capped(w) ELSE obs
    /\ UNCHANGED <<kernel, monitor>>

(***************************************************************************)
(* The monitor thread with its handlers, the heads of the workers, and the *)
(* processes around them.                                                  *)
(***************************************************************************)
MonForks == 1

MonitorStep ==
    \/ \E fd \in {-1, 3} : Setup(fd)
    \/ StartScan
    \/ \E p \in Pids : WaitReturn(p)
    \/ WaitNoChild \/ RestoreMask \/ DispatchExited
    \/ \E p \in Pids, k \in StopKinds : DispatchFork(p, k, MonForks)
    \/ \E s \in BOOLEAN : DispatchFork2(s)
    \/ \E p \in Pids, k \in StopKinds : DispatchZygoteLost(p, k)
    \/ \E p \in Pids, k \in StopKinds : DispatchForeign(p, k)
    \/ \E p \in Pids : DispatchSigstop(p)
    \/ \E p \in Pids : DispatchSignal(p)

HandlerStep == AlarmHandler \/ InotifyIdle \/ InotifyEvent \/ TermHandler

EnvStep ==
    \/ \E z \in ZPids : ZygoteStart(z)
    \/ \E z \in ZPids : Unshare(z)
    \/ \E p \in Pids : Die(p)

WorkerHead == \E w \in Workers : WkRead(w) \/ WkClear(w) \/ WkDetach(w)

Next == MonitorStep \/ HandlerStep \/ EnvStep \/ WorkerHead

Spec == Init /\ [][Next]_vars

(***************************************************************************)
(* The inspection of one forked child, whatever the child shows, next to   *)
(* a monitor thread that registers, refreshes and loses the zygote and is  *)
(* terminated.                                                             *)
(***************************************************************************)
InspForks == 1

InitInspect == Init /\ orig_blocked

WorkerBody(w, uids, ctxs, cmds) ==
    \/ WkStat(w, uids) \/ WkAttr(w, ctxs) \/ WkCmdline(w, cmds)
    \/ WkLoop1(w, cmds) \/ WkCheckAndHide(w) \/ WkLoop2(w, cmds)
    \/ WkReread(w, cmds) \/ WkStop(w) \/ WkTarget(w, BOOLEAN)
    \/ WkReadNs(w) \/ WkCompare(w) \/ WkHide(w) \/ WkNotTarget(w)
    \/ WkRetry(w)

NextInspect ==
    \/ Setup(3) \/ StartScan
    \/ \E p \in ZPids : WaitReturn(p)
    \/ WaitNoChild \/ RestoreMask
    \/ \E p \in ZPids : DispatchFork(p, "fork", InspForks)
    \/ DispatchFork2(TRUE)
    \/ \E p \in ZPids : DispatchZygoteLost(p, "exit")
    \/ InotifyEvent \/ TermHandler
    \/ \E z \in ZPids : ZygoteStart(z)
    \/ \E p \in Pids : Unshare(p)
    \/ \E c \in CPids : Die(c)
    \/ WorkerHead
    \/ \E w \in Workers : WorkerBody(w, Uids, Contexts, Cmdlines)

SpecInspect == InitInspect /\ [][NextInspect]_vars

\* Every worker thread that can take a step is scheduled in the end.
WorkerStep(w) ==
    WkRead(w) \/ WkClear(w) \/ WkDetach(w) \/ WorkerBody(w, Uids, Contexts, Cmdlines)

SpecInspectFair == SpecInspect /\ \A w \in Workers : WF_vars(WorkerStep(w))

(***************************************************************************)
(* Fork events that follow each other closely: the monitor thread handles  *)
(* the forks of the zygote while the workers it started read the slot.     *)
(***************************************************************************)
NextRace ==
    \/ Setup(3) \/ StartScan
    \/ \E z \in ZPids : ZygoteStart(z)
    \/ \E p \in ZPids : WaitReturn(p)
    \/ WaitNoChild \/ RestoreMask
    \/ \E p \in ZPids, k \in {"fork", "vfork"} : DispatchFork(p, k, MaxForks)
    \/ \E s \in BOOLEAN : DispatchFork2(s)
    \/ WorkerHead

SpecRace == InitInspect /\ [][NextRace]_vars

(***************************************************************************)
(* Claims about the monitor thread.                                        *)
(***************************************************************************)
Running == pc \in {"wait", "got", "dispatch", "fork2", "sleep"}

\* C2: once proc_monitor is in its loop, the 250 ms timer is armed if and only
\* if zygote_map holds fewer than the expected number of zygotes.
C2_TimerIffBelowExpected ==
    Running => (timer <=> ~is_zygote_done(zygote_map))

\* C4 as claimed: a bit of attaches is set if and only if the monitor holds a
\* trace attachment to that pid.
C4_BitIffAttached == \A p \in Pids : p \in attaches <=> p \in traced

\* C4 as amended: a pid whose bit is set is attached, or is the exited pid
\* that waitpid has just reaped and whose dispatch (detach_pid) is pending.
C4_BitImpliesAttached ==
    \A p \in attaches : p \in traced \/ (ev.kind = "exited" /\ ev.pid = p)

\* C4 witness: a bit is set for an attached child that SIGSTOPped.
C4_Witness == \E c \in CPids : c \in attaches /\ c \in traced /\ opts[c] = "app"

\* C5: no inspector worker writes attaches or zygote_map.
C5_WorkersNeverWrite == ~obs.wwrote

Cleaned ==
    /\ zygote_map = EmptyMap
    /\ attaches = {}
    /\ inotify_fd = -1
    /\ sigact = "dfl"
    /\ pc = "exited"

C7_TermLeavesCleanState ==
    obs.termed =>
        /\ Cleaned
        /\ term_thread_map(zygote_map) = zygote_map
        /\ term_thread_attaches(attaches) = attaches
        /\ term_thread_fd(inotify_fd) = inotify_fd
        /\ term_thread_sigact(sigact) = sigact
        /\ term_thread_exit(pc) = pc

\* C7 witness: the thread was terminated with a worker in flight, which has
\* since run detach_pid.
C7_Witness == obs.termed /\ obs.left /\ \E w \in Workers : wk[w].pc = "stat"

C9_FailedPidForgotten ==
    \A p \in obs.tfail : p \notin DOMAIN zygote_map /\ p \notin attaches

(***************************************************************************)
(* Claims about the inspector.                                             *)
(***************************************************************************)
WorkerOf(c) == c - ExpectedZygotes

\* C1: once the worker started for a forked child has ended, the child has
\* been sent SIGCONT once or handed to hide_daemon once, and not both
\* (stated for the children that are still alive).
C1_ExactlyOneOutcome ==
    \A c \in CPids :
        (wk[WorkerOf(c)].pc = "done" /\ proc[c] = "live")
            => obs.conts[c] + obs.hides[c] = 1

\* C3: hide_daemon is never called for a child that is in the mount
\* namespace of a live zygote.
C3_NoHideInZygoteNs == ~obs.hshared

\* C10: hide_daemon is never called for a child after a read of its proc
\* entries has failed.
C10_NoHideAfterFailedRead == ~obs.hfailed

\* C11: when the inspector of a child has hit the iteration cap of a polling
\* loop and has ended, the child has been sent SIGCONT and hide_daemon was
\* not called for it.
C11_CapMeansResumed ==
    \A w \in Workers :
        (wk[w].pc = "done" /\ wk[w].pid \in obs.capped /\ wk[w].pid \in CPids)
            => obs.conts[wk[w].pid] >= 1 /\ obs.hides[wk[w].pid] = 0

\* The parts of C12: a worker that consults is_hide_target, or has, sent the
\* SIGSTOP before; past the consultation the answer was true; the step that
\* calls hide_daemon is taken at line 287 by such a worker, sends no SIGCONT
\* and ends the worker.
AfterAsk == {"read_ns", "compare", "hide"}

C12_Ordered ==
    \A w \in Workers :
        /\ (wk[w].pc = "target" \/ wk[w].target # "unasked")
               => wk[w].pid \in CPids /\ obs.stops[wk[w].pid] >= 1
        /\ wk[w].pc \in AfterAsk => wk[w].target = "yes"

C12_HideStep ==
    \A c \in CPids :
        obs'.hides[c] # obs.hides[c] =>
            /\ obs'.conts = obs.conts
            /\ \E w \in Workers :
                 /\ wk[w].pid = c /\ wk[w].pc = "hide" /\ wk[w].target = "yes"
                 /\ wk'[w].pc = "done"

\* C12: is_hide_target is consulted for a child only after the inspector sent
\* it SIGSTOP; hide_daemon is called only by an inspector that sent the
\* SIGSTOP and got the answer true, and that inspector sends no SIGCONT.
C12_StopAskHide ==
    /\ []C12_Ordered
    /\ [][C12_HideStep]_vars
    /\ [][\A w \in Workers : wk[w].pc = "done" => wk'[w] = wk[w]]_vars

\* C12 witness: a child was stopped once and handed to hide_daemon, with no
\* SIGCONT.
C12_Witness ==
    \E c \in CPids :
        obs.stops[c] = 1 /\ obs.hides[c] = 1 /\ obs.conts[c] = 0

\* C13: every worker that was started ends.
C13_WorkersTerminate ==
    \A w \in Workers : (wk[w].pc # "idle") ~> (wk[w].pc = "done")

\* C13 witness: a worker has ended after the cap stopped its polling.
C13_Witness ==
    \E w \in Workers : wk[w].pc = "done" /\ wk[w].pid \in obs.capped

\* C14: the fingerprint zygote_map holds for a pid is the one new_zygote
\* last read with success for it, and new_zygote never goes on to the
\* PTRACE_ATTACH for a pid it finds in zygote_map.
C14_FingerprintIsLastRead ==
    /\ \A z \in DOMAIN zygote_map : zygote_map[z] = obs.lastread[z]
    /\ obs.reseen # "reattached"

\* C14 witness: a registered, attached zygote was seen again after it had
\* unshared, and its entry holds the new fingerprint.
C14_Witness ==
    \E z \in DOMAIN zygote_map :
        /\ obs.reseen = "refreshed" /\ zygote_map[z] = z /\ ns[z] = z
        /\ z \in traced /\ opts[z] = "fork"

\* The worker is past line 342 with a pid it found in fork_pid.
Inspecting(w) == wk[w].pid # 0 /\ wk[w].pc \notin {"idle", "read", "clear"}

\* C15: no two workers inspect the same child pid.
C15_DistinctChildren ==
    \A v, w \in Workers :
        (v # w /\ Inspecting(v) /\ Inspecting(w)) => wk[v].pid # wk[w].pid

\* C16: while a worker acts on a child pid it took from fork_pid, the monitor
\* thread is not between lines 432 and 433 of the fork event of that child.
C16_TakenAfterDetach ==
    \A w \in Workers :
        Inspecting(w) => ~(pc = "fork2" /\ ev.msg = wk[w].pid)

\* C19: attaches is never indexed with a pid outside 1 .. PID_MAX.
C19_IndexInRange == ~obs.oob

\* C17: as long as the monitor thread runs, hide_daemon is never called for
\* a child that shares its mount namespace with a live zygote, whatever the
\* worker finds in zygote_map.
C17_StaleOnlyRejects == ~obs.termed => ~obs.hshared

\* C18: the back-off sleeps an inspector makes for its child, in the loop of
\* do_check_fork and the two loops of check_pid together, never exceed the
\* iteration cap.
C18_TotalPollsWithinCap == \A w \in Workers : wk[w].n <= IterCap

\* C20: a live process that is in zygote_map and traced is traced with the
\* fork, vfork and exit options, so that its forks are reported.
C20_ZygoteReportsForks ==
    \A z \in DOMAIN zygote_map : TraceOk(z) => opts[z] = "fork"

====
